---- MODULE Spec2Model ----
(***************************************************************************)
(* Model of langgraph_demo.py: parallel_guardrail_node races a guardrail   *)
(* task (check_guardrail) against an LLM task (generate_llm_response) on   *)
(* one asyncio event loop.  Several invocations of the node may be in      *)
(* flight on the same loop; every variable is a function of the            *)
(* invocation, because every piece of state in the source is a local of    *)
(* the coroutine.                                                          *)
(*                                                                         *)
(* One action is one uninterrupted stretch of one coroutine: asyncio runs  *)
(* a coroutine from one suspension point to the next without preemption,   *)
(* and awaiting a task that is already done does not suspend.              *)
(***************************************************************************)
EXTENDS Naturals, Sequences, FiniteSets

\* Number of invocations of parallel_guardrail_node in flight on the loop.
NumInvocations == 2

Invocations == 1..NumInvocations

\* str | None: the absent value of State.error.
None == "None"

\* HumanMessage(content=c)
HumanMessage(c) == [content |-> c]

\* Message histories the caller passes in state["messages"].
InputMessages ==
    { << >>,
      << HumanMessage("q1"), HumanMessage("q2") >> }

\* Values generate_llm_response may return.
Artifacts == {"AI Response: A", "AI Response: B"}

\* The error text of the blocked result.
BlockedError == "Request blocked due to content policy violation"

\* class State(TypedDict)
State(msgs, passed, err) ==
    [messages |-> msgs, guardrail_passed |-> passed, error |-> err]

\* The states the caller invokes the node with (as __main__ does: not yet
\* passed, no error).
InputStates == { State(m, FALSE, None) : m \in InputMessages }

\* Placeholder of result[i] while invocation i has returned nothing.
NoResult == State(<< >>, FALSE, "NoResult")

VARIABLES
    state,      \* state[i]: the State argument of invocation i
    pc,         \* pc[i]: where the coroutine parallel_guardrail_node stands
    userMsg,    \* userMsg[i]: user_message, the guardrail's argument
    guard,      \* guard[i]: guardrail_task
    llm,        \* llm[i]: llm_task
    llmValue,   \* llmValue[i]: the result llm_task holds once done
    cancel,     \* cancel[i]: what became of llm_task.cancel()
    result,     \* result[i]: the State the invocation returned
    exc,        \* exc[i]: the exception that left the invocation, or None
    guardLate,  \* guardLate[i]: a guard deadline passed with the guard running
    graceOver   \* graceOver[i]: a grace period passed with the cancel unconfirmed

vars == << state, pc, userMsg, guard, llm, llmValue, cancel, result, exc,
           guardLate, graceOver >>

(***************************************************************************)
(* create_agent_demo.py and create_deep_agent.py: one agent per demo, built *)
(* with middleware=[InputGuardrailMiddleware(), OutputGuardrailMiddleware()]*)
(* and invoked once.  The agent calls before_model, then the model, then    *)
(* after_model, as the docstrings of the two classes state.                 *)
(***************************************************************************)

\* The two demos.
Demos == {"create_agent", "create_deep_agent"}

\* A message that is a plain value without a content attribute.
PlainMessage(t) == [str |-> t]

\* Message lists an agent is invoked with.
AgentRequests ==
    { << >>,
      << HumanMessage("q1") >>,
      << PlainMessage("q1") >>,
      << HumanMessage("q1"), HumanMessage("q2") >> }

\* The text of the model's answer.
ModelReply == "model reply"

VARIABLES
    request,     \* request[d]: the messages agent.invoke was called with
    violation,   \* violation[d]: violation_detected of before_model
    hasIssues,   \* hasIssues[d]: has_issues of after_model
    agentPc,     \* agentPc[d]: where the run of the agent stands
    agentMsgs,   \* agentMsgs[d]: state["messages"] of the agent
    checked,     \* checked[d]: the text before_model last examined
    modelCalls,  \* modelCalls[d]: how often the model was called
    agentError   \* agentError[d]: the ValueError that ended the run, or None

agentVars == << request, violation, hasIssues, agentPc, agentMsgs, checked,
               modelCalls, agentError >>

\* A task that finished, one way or another (Task.done()).
GuardDone(i) == guard[i] \in {"accepted", "rejected", "failed"}
LlmDone(i) == llm[i] \in {"done", "failed", "cancelled"}

\* The invocation is over: it returned a State or an exception left it.
Finished(i) == pc[i] \in {"returned", "raised"}

Init ==
    /\ state \in [Invocations -> InputStates]
    /\ pc = [i \in Invocations |-> "idle"]
    /\ userMsg = [i \in Invocations |-> ""]
    /\ guard = [i \in Invocations |-> "none"]
    /\ llm = [i \in Invocations |-> "none"]
    /\ llmValue = [i \in Invocations |-> None]
    /\ cancel = [i \in Invocations |-> "not_called"]
    /\ result = [i \in Invocations |-> NoResult]
    /\ exc = [i \in Invocations |-> None]
    /\ guardLate = [i \in Invocations |-> FALSE]
    /\ graceOver = [i \in Invocations |-> FALSE]
    /\ request = [d \in Demos |-> << >>]
    /\ violation = [d \in Demos |-> TRUE]
    /\ hasIssues = [d \in Demos |-> FALSE]
    /\ agentPc = [d \in Demos |-> "idle"]
    /\ agentMsgs = [d \in Demos |-> << >>]
    /\ checked = [d \in Demos |-> None]
    /\ modelCalls = [d \in Demos |-> 0]
    /\ agentError = [d \in Demos |-> None]

\* user_message = state["messages"][-1].content if state["messages"] else ""
UserMessage(msgs) ==
    IF Len(msgs) > 0 THEN msgs[Len(msgs)].content ELSE ""

\* Start that creates the guardrail task alone and leaves the LLM task for
\* after the verdict (guard-then-generate).
StartGuardOnly(i) ==
    /\ pc[i] = "idle"
    /\ userMsg' = [userMsg EXCEPT ![i] = UserMessage(state[i].messages)]
    /\ guard' = [guard EXCEPT ![i] = "running"]
    /\ pc' = [pc EXCEPT ![i] = "await_guard"]
    /\ UNCHANGED << state, llm, llmValue, cancel, result, exc, guardLate,
                    graceOver >>
    /\ UNCHANGED agentVars

\* Lines 64-73: compute user_message, create both tasks, suspend on the
\* guardrail task.
Start(i) ==
    /\ pc[i] = "idle"
    /\ userMsg' = [userMsg EXCEPT ![i] = UserMessage(state[i].messages)]
    /\ guard' = [guard EXCEPT ![i] = "running"]
    /\ llm' = [llm EXCEPT ![i] = "running"]
    /\ pc' = [pc EXCEPT ![i] = "await_guard"]
    /\ UNCHANGED << state, llmValue, cancel, result, exc, guardLate, graceOver >>
    /\ UNCHANGED agentVars

\* check_guardrail, lines 28-38: the sleep is over and the check returns
\* False (violation_detected) or True.  The flag on line 31 is the verdict
\* of the evaluator, an input of the invocation.
GuardReturn(i, passed) ==
    /\ guard[i] = "running"
    /\ guard' = [guard EXCEPT ![i] = IF passed THEN "accepted" ELSE "rejected"]
    /\ UNCHANGED << state, pc, userMsg, llm, llmValue, cancel, result, exc,
                    guardLate, graceOver >>
    /\ UNCHANGED agentVars

\* check_guardrail, lines 25-38: the evaluator raises instead of returning;
\* the task holds the exception.
GuardRaise(i) ==
    /\ guard[i] = "running"
    /\ guard' = [guard EXCEPT ![i] = "failed"]
    /\ UNCHANGED << state, pc, userMsg, llm, llmValue, cancel, result, exc,
                    guardLate, graceOver >>
    /\ UNCHANGED agentVars

\* Time passes while the coroutine is suspended on line 73: the deadline a
\* caller would set for the guard goes by with the guard still running.
\* The source arms no timer, so nothing but this record changes.
GuardDeadline(i) ==
    /\ pc[i] = "await_guard"
    /\ guard[i] = "running"
    /\ ~guardLate[i]
    /\ guardLate' = [guardLate EXCEPT ![i] = TRUE]
    /\ UNCHANGED << state, pc, userMsg, guard, llm, llmValue, cancel, result,
                    exc, graceOver >>
    /\ UNCHANGED agentVars

\* LlmReturn of a generation shielded from cancellation: a pending cancel
\* does not keep the sleep on line 46 from finishing.
LlmReturnShielded(i, v) ==
    /\ llm[i] = "running"
    /\ llm' = [llm EXCEPT ![i] = "done"]
    /\ llmValue' = [llmValue EXCEPT ![i] = v]
    /\ UNCHANGED << state, pc, userMsg, guard, cancel, result, exc,
                    guardLate, graceOver >>
    /\ UNCHANGED agentVars

\* generate_llm_response, lines 46-48: the generation ends and returns its
\* text.  A task with a cancellation pending is resumed with CancelledError
\* instead, so it cannot take this step.
LlmReturn(i, v) ==
    /\ llm[i] = "running"
    /\ cancel[i] # "pending"
    /\ llm' = [llm EXCEPT ![i] = "done"]
    /\ llmValue' = [llmValue EXCEPT ![i] = v]
    /\ UNCHANGED << state, pc, userMsg, guard, cancel, result, exc,
                    guardLate, graceOver >>
    /\ UNCHANGED agentVars

\* generate_llm_response, lines 44-48: the generation raises an error of
\* its own; the task holds the exception.
LlmRaise(i) ==
    /\ llm[i] = "running"
    /\ cancel[i] # "pending"
    /\ llm' = [llm EXCEPT ![i] = "failed"]
    /\ UNCHANGED << state, pc, userMsg, guard, llmValue, cancel, result, exc,
                    guardLate, graceOver >>
    /\ UNCHANGED agentVars

\* generate_llm_response, lines 49-51: CancelledError arrives at the
\* suspension point and is re-raised; the task ends cancelled.
LlmCancelled(i) ==
    /\ llm[i] = "running"
    /\ cancel[i] = "pending"
    /\ llm' = [llm EXCEPT ![i] = "cancelled"]
    /\ cancel' = [cancel EXCEPT ![i] = "honoured"]
    /\ UNCHANGED << state, pc, userMsg, guard, llmValue, result, exc,
                    guardLate, graceOver >>
    /\ UNCHANGED agentVars

\* A producer whose handler on line 49 does not re-raise: CancelledError is
\* delivered and swallowed, and the task runs on as if never cancelled.
LlmSwallow(i) ==
    /\ llm[i] = "running"
    /\ cancel[i] = "pending"
    /\ cancel' = [cancel EXCEPT ![i] = "swallowed"]
    /\ UNCHANGED << state, pc, userMsg, guard, llm, llmValue, result, exc,
                    guardLate, graceOver >>
    /\ UNCHANGED agentVars

\* Time passes while the coroutine is suspended on line 80: a grace period
\* for the cancellation goes by with llm_task still running.  The source
\* arms no timer, so nothing but this record changes.
GraceExpire(i) ==
    /\ pc[i] = "await_cancel"
    /\ llm[i] = "running"
    /\ ~graceOver[i]
    /\ graceOver' = [graceOver EXCEPT ![i] = TRUE]
    /\ UNCHANGED << state, pc, userMsg, guard, llm, llmValue, cancel, result,
                    exc, guardLate >>
    /\ UNCHANGED agentVars

\* return <State>
Return(i, st) ==
    /\ pc' = [pc EXCEPT ![i] = "returned"]
    /\ result' = [result EXCEPT ![i] = st]
    /\ UNCHANGED exc

\* An exception leaves parallel_guardrail_node.
Raise(i, e) ==
    /\ pc' = [pc EXCEPT ![i] = "raised"]
    /\ exc' = [exc EXCEPT ![i] = e]
    /\ UNCHANGED result

\* BlockedState that leaves out the error text.
BlockedStateNoError(st) == State(st.messages, FALSE, None)

\* Lines 84-88: the blocked result.
BlockedState(st) == State(st.messages, FALSE, BlockedError)

\* CompletedState with the history dropped: [HumanMessage(...)] instead of
\* state["messages"] + [HumanMessage(...)].
CompletedStateNoHistory(st, v) ==
    State(<< HumanMessage(v) >>, TRUE, None)

\* Lines 94-98: the completed result.
CompletedState(st, v) ==
    State(st.messages \o << HumanMessage(v) >>, TRUE, None)

\* CancelLlm on a task handle shared by the invocations (a module-level
\* llm_task): the cancel reaches every producer still running.
CancelSharedLlm(i) ==
    [j \in Invocations |->
        IF j = i
        THEN IF LlmDone(i) THEN "noop" ELSE "pending"
        ELSE IF llm[j] = "running" /\ cancel[j] = "not_called"
             THEN "pending"
             ELSE cancel[j]]

\* llm_task.cancel(), line 78: no effect on a task that is done; otherwise
\* CancelledError is thrown into the task at its next step.
CancelLlm(i) ==
    [cancel EXCEPT ![i] = IF LlmDone(i) THEN "noop" ELSE "pending"]

\* RejectedOutcome that uses what `await llm_task` returned: a producer
\* that finished in time gets its text appended.
RejectedOutcomeLeaky(i) ==
    CASE llm[i] = "failed" -> Raise(i, "ProducerError")
      [] llm[i] = "done" -> Return(i, CompletedState(state[i], llmValue[i]))
      [] OTHER -> Return(i, BlockedState(state[i]))

\* Lines 79-88 once llm_task is done: `await llm_task` re-raises the task's
\* CancelledError, which the handler catches, or returns its result, which
\* is dropped, or re-raises the task's own exception, which no handler
\* catches.
RejectedOutcome(i) ==
    IF llm[i] = "failed"
    THEN Raise(i, "ProducerError")
    ELSE Return(i, BlockedState(state[i]))

\* Lines 92-98 once llm_task is done.
AcceptedOutcome(i) ==
    CASE llm[i] = "done" -> Return(i, CompletedState(state[i], llmValue[i]))
      [] llm[i] = "failed" -> Raise(i, "ProducerError")
      [] OTHER -> Raise(i, "CancelledError")

\* Line 73 resumes with the exception of guardrail_task: nothing catches
\* it, and lines 75-98 are skipped; llm_task is left as it is.
GuardFailedResume(i) ==
    /\ pc[i] = "await_guard"
    /\ guard[i] = "failed"
    /\ Raise(i, "GuardError")
    /\ UNCHANGED << state, userMsg, guard, llm, llmValue, cancel,
                    guardLate, graceOver >>
    /\ UNCHANGED agentVars

\* RejectResume without lines 79-82: cancel() and return at once.
RejectResumeNoAwait(i) ==
    /\ pc[i] = "await_guard"
    /\ guard[i] = "rejected"
    /\ cancel' = CancelLlm(i)
    /\ Return(i, BlockedState(state[i]))
    /\ UNCHANGED << state, userMsg, guard, llm, llmValue, guardLate, graceOver >>
    /\ UNCHANGED agentVars

\* Line 73 resumes with False: lines 75-80 cancel llm_task and await it;
\* the await suspends only if the task is not yet done.
RejectResume(i) ==
    /\ pc[i] = "await_guard"
    /\ guard[i] = "rejected"
    /\ cancel' = CancelLlm(i)
    /\ IF LlmDone(i)
       THEN RejectedOutcome(i)
       ELSE /\ pc' = [pc EXCEPT ![i] = "await_cancel"]
            /\ UNCHANGED << result, exc >>
    /\ UNCHANGED << state, userMsg, guard, llm, llmValue, guardLate, graceOver >>
    /\ UNCHANGED agentVars

\* Line 80 resumes: llm_task is done.
CancelConfirmed(i) ==
    /\ pc[i] = "await_cancel"
    /\ LlmDone(i)
    /\ RejectedOutcome(i)
    /\ UNCHANGED << state, userMsg, guard, llm, llmValue, cancel,
                    guardLate, graceOver >>
    /\ UNCHANGED agentVars

\* AcceptResume of a coordinator that waits for whichever task is done
\* first: it resumes on a finished producer with the guard still running.
AcceptResumeEager(i) ==
    /\ pc[i] = "await_guard"
    /\ guard[i] = "accepted" \/ LlmDone(i)
    /\ IF LlmDone(i)
       THEN AcceptedOutcome(i)
       ELSE /\ pc' = [pc EXCEPT ![i] = "await_llm"]
            /\ UNCHANGED << result, exc >>
    /\ UNCHANGED << state, userMsg, guard, llm, llmValue, cancel,
                    guardLate, graceOver >>
    /\ UNCHANGED agentVars

\* Line 73 resumes with True: line 92 awaits llm_task; the await suspends
\* only if the task is not yet done.
AcceptResume(i) ==
    /\ pc[i] = "await_guard"
    /\ guard[i] = "accepted"
    /\ IF LlmDone(i)
       THEN AcceptedOutcome(i)
       ELSE /\ pc' = [pc EXCEPT ![i] = "await_llm"]
            /\ UNCHANGED << result, exc >>
    /\ UNCHANGED << state, userMsg, guard, llm, llmValue, cancel,
                    guardLate, graceOver >>
    /\ UNCHANGED agentVars

\* LlmAwaited that appends to the caller's list in place
\* (state["messages"].append(...)) and returns that list.
LlmAwaitedInPlace(i) ==
    /\ pc[i] = "await_llm"
    /\ llm[i] = "done"
    /\ state' = [state EXCEPT ![i].messages =
                     Append(@, HumanMessage(llmValue[i]))]
    /\ Return(i, State(state'[i].messages, TRUE, None))
    /\ UNCHANGED << userMsg, guard, llm, llmValue, cancel, guardLate,
                    graceOver >>
    /\ UNCHANGED agentVars

\* Line 92 resumes: llm_task is done.
LlmAwaited(i) ==
    /\ pc[i] = "await_llm"
    /\ LlmDone(i)
    /\ AcceptedOutcome(i)
    /\ UNCHANGED << state, userMsg, guard, llm, llmValue, cancel,
                    guardLate, graceOver >>
    /\ UNCHANGED agentVars

Next ==
    \E i \in Invocations :
        \/ Start(i)
        \/ \E passed \in BOOLEAN : GuardReturn(i, passed)
        \/ GuardRaise(i)
        \/ \E v \in Artifacts : LlmReturn(i, v)
        \/ LlmRaise(i)
        \/ LlmCancelled(i)
        \/ LlmSwallow(i)
        \/ GuardFailedResume(i)
        \/ RejectResume(i)
        \/ CancelConfirmed(i)
        \/ AcceptResume(i)
        \/ LlmAwaited(i)

Spec == Init /\ [][Next]_vars

\* The same loop observed against a clock: besides the steps of the program,
\* a guard deadline or a cancellation grace period may run out.  No step of
\* the program reads the two records, so the program behaves as under Spec.
NextTimed ==
    \/ Next
    \/ \E i \in Invocations :
           \/ GuardDeadline(i)
           \/ GraceExpire(i)

SpecTimed == Init /\ [][NextTimed]_vars

(***************************************************************************)
(* The middleware demos.                                                   *)
(***************************************************************************)

\* The ValueError text of the input guardrail of each demo.
InputViolationError(d) ==
    IF d = "create_agent"
    THEN "Content policy violation: Request blocked by input guardrail"
    ELSE "Content policy violation: Deep agent blocked by input guardrail"

\* The ValueError text of the output guardrail of each demo.
OutputViolationError(d) ==
    IF d = "create_agent"
    THEN "Output guardrail violation: Response contains unsafe content"
    ELSE "Output guardrail violation: Response contains issues"

\* m.content if hasattr(m, 'content') else str(m)
MessageText(m) ==
    IF "content" \in DOMAIN m THEN m.content ELSE m.str

\* What a hook does: it returns a state update (None: no update) or raises.
HookReturn(text) == [raised |-> FALSE, value |-> None, text |-> text]
HookRaise(err, text) == [raised |-> TRUE, value |-> err, text |-> text]

\* before_model that reports the violation without raising.
BeforeModelLogOnly(d, msgs, violationDetected) ==
    IF Len(msgs) = 0
    THEN HookReturn(None)
    ELSE HookReturn(MessageText(msgs[Len(msgs)]))

\* InputGuardrailMiddleware.before_model: no messages, no check; otherwise
\* raise ValueError on a violation and return None without one.
BeforeModel(d, msgs, violationDetected) ==
    IF Len(msgs) = 0
    THEN HookReturn(None)
    ELSE IF violationDetected
         THEN HookRaise(InputViolationError(d), MessageText(msgs[Len(msgs)]))
         ELSE HookReturn(MessageText(msgs[Len(msgs)]))

\* OutputGuardrailMiddleware.after_model: the same on the model's answer.
AfterModel(d, msgs, issues) ==
    IF Len(msgs) = 0
    THEN HookReturn(None)
    ELSE IF issues
         THEN HookRaise(OutputViolationError(d), MessageText(msgs[Len(msgs)]))
         ELSE HookReturn(MessageText(msgs[Len(msgs)]))

\* __main__: agent.invoke({"messages": [...]}); the agent takes the
\* request as its state and turns to the before_model hooks.
AgentInvoke(d) ==
    /\ agentPc[d] = "idle"
    /\ agentMsgs' = [agentMsgs EXCEPT ![d] = request[d]]
    /\ agentPc' = [agentPc EXCEPT ![d] = "before_model"]
    /\ UNCHANGED << request, violation, hasIssues, checked, modelCalls,
                    agentError >>
    /\ UNCHANGED vars

\* The agent runs before_model.  A ValueError leaves agent.invoke and is
\* caught by __main__; on None the state stays as it is and the model is
\* next.
InputGuardrail(d) ==
    /\ agentPc[d] = "before_model"
    /\ LET r == BeforeModel(d, agentMsgs[d], violation[d])
       IN /\ checked' = [checked EXCEPT ![d] = r.text]
          /\ IF r.raised
             THEN /\ agentPc' = [agentPc EXCEPT ![d] = "blocked"]
                  /\ agentError' = [agentError EXCEPT ![d] = r.value]
             ELSE /\ agentPc' = [agentPc EXCEPT ![d] = "model"]
                  /\ UNCHANGED agentError
    /\ UNCHANGED << request, violation, hasIssues, agentMsgs, modelCalls >>
    /\ UNCHANGED vars

\* The agent calls the model, whose answer is appended to the messages,
\* and turns to the after_model hooks.
ModelCall(d) ==
    /\ agentPc[d] = "model"
    /\ modelCalls' = [modelCalls EXCEPT ![d] = @ + 1]
    /\ agentMsgs' = [agentMsgs EXCEPT ![d] = Append(@, HumanMessage(ModelReply))]
    /\ agentPc' = [agentPc EXCEPT ![d] = "after_model"]
    /\ UNCHANGED << request, violation, hasIssues, checked, agentError >>
    /\ UNCHANGED vars

\* The agent runs after_model; agent.invoke returns or the ValueError
\* leaves it.
OutputGuardrail(d) ==
    /\ agentPc[d] = "after_model"
    /\ LET r == AfterModel(d, agentMsgs[d], hasIssues[d])
       IN /\ checked' = [checked EXCEPT ![d] = r.text]
          /\ IF r.raised
             THEN /\ agentPc' = [agentPc EXCEPT ![d] = "blocked"]
                  /\ agentError' = [agentError EXCEPT ![d] = r.value]
             ELSE /\ agentPc' = [agentPc EXCEPT ![d] = "done"]
                  /\ UNCHANGED agentError
    /\ UNCHANGED << request, violation, hasIssues, agentMsgs, modelCalls >>
    /\ UNCHANGED vars

\* The demos before they run: each with a request and with the two flags
\* either way; no invocation of parallel_guardrail_node takes a step.
InitAgents ==
    /\ state = [i \in Invocations |-> State(<< >>, FALSE, None)]
    /\ pc = [i \in Invocations |-> "idle"]
    /\ userMsg = [i \in Invocations |-> ""]
    /\ guard = [i \in Invocations |-> "none"]
    /\ llm = [i \in Invocations |-> "none"]
    /\ llmValue = [i \in Invocations |-> None]
    /\ cancel = [i \in Invocations |-> "not_called"]
    /\ result = [i \in Invocations |-> NoResult]
    /\ exc = [i \in Invocations |-> None]
    /\ guardLate = [i \in Invocations |-> FALSE]
    /\ graceOver = [i \in Invocations |-> FALSE]
    /\ request \in [Demos -> AgentRequests]
    /\ violation \in [Demos -> BOOLEAN]
    /\ hasIssues \in [Demos -> BOOLEAN]
    /\ agentPc = [d \in Demos |-> "idle"]
    /\ agentMsgs = [d \in Demos |-> << >>]
    /\ checked = [d \in Demos |-> None]
    /\ modelCalls = [d \in Demos |-> 0]
    /\ agentError = [d \in Demos |-> None]

NextAgents ==
    \E d \in Demos :
        \/ AgentInvoke(d)
        \/ InputGuardrail(d)
        \/ ModelCall(d)
        \/ OutputGuardrail(d)

SpecAgents == InitAgents /\ [][NextAgents]_<< vars, agentVars >>

(***************************************************************************)
(* Vocabulary of the claims: the Outcome a finished invocation amounts to. *)
(***************************************************************************)

\* The invocation returned the completed result (guardrail_passed, no error).
IsCompleted(i) ==
    /\ pc[i] = "returned"
    /\ result[i].guardrail_passed
    /\ result[i].error = None

\* The invocation returned the blocked result.
IsBlocked(i) ==
    /\ pc[i] = "returned"
    /\ ~result[i].guardrail_passed
    /\ result[i].error = BlockedError

\* The invocation returned a failure as a value: not passed, with an error
\* that is not the policy block (GuardFailed, ProducerFailed,
\* CancellationFailed).
IsFailureValue(i) ==
    /\ pc[i] = "returned"
    /\ ~result[i].guardrail_passed
    /\ result[i].error \notin {None, BlockedError}

\* Everything invocation i owns.
Local(i) ==
    << state[i], pc[i], userMsg[i], guard[i], llm[i], llmValue[i], cancel[i],
       result[i], exc[i], guardLate[i], graceOver[i] >>

(***************************************************************************)
(* C1..C10                                                                 *)
(***************************************************************************)

\* C1: no leakage.  Once the guard has resolved to rejected, the invocation
\* never exposes the producer's artifact: guardrail_passed is never True in
\* its result, a returned result carries exactly the input messages, and no
\* message of it holds a producer text, whenever the producer finished.
C1_NoLeakage ==
    \A i \in Invocations :
        guard[i] = "rejected" =>
            /\ ~result[i].guardrail_passed
            /\ ~IsCompleted(i)
            /\ pc[i] = "returned" => result[i].messages = state[i].messages
            /\ \A k \in DOMAIN result[i].messages :
                   result[i].messages[k].content \notin Artifacts

\* C1 witness: a rejected invocation has returned although its producer
\* completed with an artifact before the cancel, and another although its
\* producer completed after swallowing the cancel.
C1_Witness ==
    /\ \E i \in Invocations :
           /\ guard[i] = "rejected" /\ pc[i] = "returned"
           /\ llm[i] = "done" /\ cancel[i] = "noop"
    /\ \E i \in Invocations :
           /\ guard[i] = "rejected" /\ pc[i] = "returned"
           /\ llm[i] = "done" /\ cancel[i] = "swallowed"

\* C2 (as claimed): whenever the guard resolved to rejected, a finished
\* invocation returned Blocked, whatever the producer's task ended as.
C2_RejectedAlwaysBlocked ==
    \A i \in Invocations :
        (guard[i] = "rejected" /\ Finished(i)) => IsBlocked(i)

\* C3: pass-through.  With the guard accepted and the producer done, a
\* finished invocation returned the input messages followed by one message
\* whose content is the producer's value, guardrail_passed True, error None.
C3_PassThrough ==
    \A i \in Invocations :
        (guard[i] = "accepted" /\ llm[i] = "done" /\ Finished(i)) =>
            /\ pc[i] = "returned"
            /\ result[i] =
                 [messages |-> Append(state[i].messages,
                                      [content |-> llmValue[i]]),
                  guardrail_passed |-> TRUE,
                  error |-> None]

\* C3 witness: an accepted invocation with a two-message history returned
\* three messages, the last one the producer's value.
C3_Witness ==
    \E i \in Invocations :
        /\ guard[i] = "accepted" /\ llm[i] = "done" /\ pc[i] = "returned"
        /\ Len(state[i].messages) = 2
        /\ Len(result[i].messages) = 3
        /\ result[i].messages[3].content = llmValue[i]

\* C4: cancellation confirmed.  An invocation whose guard rejected has, by
\* the time it is over, called cancel on the producer's task, and that task
\* is done; no invocation has returned Blocked with its producer running.
C4_CancellationConfirmed ==
    \A i \in Invocations :
        /\ (guard[i] = "rejected" /\ Finished(i)) =>
               (cancel[i] # "not_called" /\ LlmDone(i))
        /\ IsBlocked(i) => LlmDone(i)

\* C4 witness: a rejected invocation returned Blocked after its running
\* producer acknowledged the cancel.
C4_Witness ==
    \E i \in Invocations :
        /\ guard[i] = "rejected" /\ IsBlocked(i)
        /\ cancel[i] = "honoured" /\ llm[i] = "cancelled"

\* C5 (as claimed): when the guard task failed, a finished invocation has
\* cancelled the producer and returned GuardFailed as a value; no exception
\* left it.
C5_GuardFailureFailSafe ==
    \A i \in Invocations :
        (guard[i] = "failed" /\ Finished(i)) =>
            /\ IsFailureValue(i)
            /\ exc[i] = None
            /\ cancel[i] # "not_called"

\* C6 (as claimed): when the guard accepted and the producer failed, a
\* finished invocation returned ProducerFailed as a value; no exception
\* left it.
C6_ProducerFailureCaptured ==
    \A i \in Invocations :
        (guard[i] = "accepted" /\ llm[i] = "failed" /\ Finished(i)) =>
            (IsFailureValue(i) /\ exc[i] = None)

\* C7 (as claimed): an invocation that is over ended by returning one
\* Outcome value (Completed, Blocked or a failure value), never otherwise.
C7_SingleOutcome ==
    \A i \in Invocations :
        Finished(i) =>
            /\ pc[i] = "returned"
            /\ IsCompleted(i) \/ IsBlocked(i) \/ IsFailureValue(i)

\* C8 (as claimed): an invocation whose guard overran its deadline returns
\* nothing but GuardFailed, with the producer cancelled, whatever the guard
\* answers afterwards.
C8_GuardTimeout ==
    \A i \in Invocations :
        (guardLate[i] /\ pc[i] = "returned") =>
            (IsFailureValue(i) /\ cancel[i] # "not_called")

\* C9 (as claimed): an invocation whose producer swallowed the cancel and
\* was still running when the grace period ran out does not end as Blocked.
C9_CancellationFailedSurfaced ==
    \A i \in Invocations :
        (graceOver[i] /\ cancel[i] = "swallowed" /\ Finished(i)) =>
            ~IsBlocked(i)

\* How invocation i must have ended, from its own verdict and its own
\* producer's status alone.
OwnEnd(i) ==
    CASE guard[i] = "failed" -> << "raised", NoResult, "GuardError" >>
      [] guard[i] = "rejected" /\ llm[i] = "failed" ->
             << "raised", NoResult, "ProducerError" >>
      [] guard[i] = "rejected" ->
             << "returned",
                [messages |-> state[i].messages, guardrail_passed |-> FALSE,
                 error |-> BlockedError],
                None >>
      [] guard[i] = "accepted" /\ llm[i] = "failed" ->
             << "raised", NoResult, "ProducerError" >>
      [] guard[i] = "accepted" /\ llm[i] = "done" ->
             << "returned",
                [messages |-> Append(state[i].messages,
                                     [content |-> llmValue[i]]),
                 guardrail_passed |-> TRUE, error |-> None],
                None >>
      [] OTHER -> << "none", NoResult, None >>

\* A step that changes what at most one invocation owns, and that requests
\* the cancel of a producer only from its own invocation, as that
\* invocation resumes from its own rejected guard.
OwnStep ==
    /\ \E i \in Invocations :
           \A j \in Invocations \ {i} : Local(j)' = Local(j)
    /\ \A i \in Invocations :
           (cancel[i] = "not_called" /\ cancel[i]' # "not_called") =>
               (pc[i] = "await_guard" /\ guard[i] = "rejected")

\* C10: isolation.  A step changes what one invocation owns and nothing of
\* any other; a producer's cancel is requested only by its own invocation,
\* resuming from its own rejected guard; and the way a finished invocation
\* ended is a function of its own verdict and its own producer's status.
C10_Isolation ==
    /\ [](\A i \in Invocations :
              Finished(i) => << pc[i], result[i], exc[i] >> = OwnEnd(i))
    /\ [][OwnStep]_vars

\* C10 witness: two invocations ran on the loop; one was rejected and had
\* its producer cancelled, the other completed with its producer untouched.
C10_Witness ==
    \E i, j \in Invocations :
        /\ i # j
        /\ guard[i] = "rejected" /\ IsBlocked(i) /\ llm[i] = "cancelled"
        /\ guard[j] = "accepted" /\ IsCompleted(j) /\ cancel[j] = "not_called"

(***************************************************************************)
(* C11..C16                                                                *)
(***************************************************************************)

\* The state of the per-invocation state machine the coroutine is in.
Phase(i) ==
    CASE pc[i] = "idle" -> "Idle"
      [] pc[i] = "await_guard" -> "Racing"
      [] pc[i] = "await_cancel" -> "Blocking"
      [] pc[i] = "await_llm" -> "Awaiting"
      [] OTHER -> "Terminal"

\* The moves of the state machine.  Racing -> Terminal is the move through
\* Blocking or Awaiting of a coroutine whose await found the task done and
\* did not suspend.
PhaseMoves ==
    { << "Idle", "Racing" >>,
      << "Racing", "Blocking" >>, << "Racing", "Awaiting" >>,
      << "Racing", "Terminal" >>,
      << "Blocking", "Terminal" >>, << "Awaiting", "Terminal" >> }

\* A step that keeps invocation i on the state machine.
PhaseStep(i) ==
    /\ pc[i]' # pc[i] => << Phase(i), Phase(i)' >> \in PhaseMoves
    /\ Phase(i)' = "Blocking" => guard[i]' \in {"rejected", "failed"}
    /\ Phase(i)' = "Awaiting" => guard[i]' = "accepted"
    /\ Phase(i) = "Terminal" =>
           << pc[i], result[i], exc[i] >>' = << pc[i], result[i], exc[i] >>
    /\ Phase(i)' = "Terminal" => LlmDone(i)'

\* C11 (as claimed): every step moves an invocation along Idle -> Racing ->
\* (Blocking or Awaiting) -> Terminal only; Blocking is entered only on a
\* rejected or failed guard and Awaiting only on an accepted one; nothing
\* changes for the coordinator once Terminal; and in Terminal the producer's
\* task is done.
C11_StateMachine ==
    [][\A i \in Invocations : PhaseStep(i)]_vars

\* C12: concurrent launch.  Whenever the coroutine has left its start, both
\* tasks have been created, and the LLM task exists exactly when the
\* guardrail task does, so its start never waits for the verdict; the
\* witness is a producer that completed while the guard was still running.
C12_ConcurrentLaunch ==
    \A i \in Invocations :
        /\ pc[i] = "idle" <=> guard[i] = "none"
        /\ guard[i] = "none" <=> llm[i] = "none"
        /\ pc[i] = "await_guard" => (guard[i] # "none" /\ llm[i] # "none")

\* C12 witness: the producer has completed with its text while the guard is
\* still evaluating and the coordinator is suspended on the guard.
C12_Witness ==
    \E i \in Invocations :
        /\ pc[i] = "await_guard"
        /\ guard[i] = "running"
        /\ llm[i] = "done" /\ llmValue[i] \in Artifacts

\* C13: guard-first decision.  While the guard has not resolved, the
\* coordinator is still at its start or suspended on the guard, has fixed
\* no result and no exception, and has not called cancel, whatever state
\* the producer's task is in.
C13_GuardFirst ==
    \A i \in Invocations :
        guard[i] \in {"none", "running"} =>
            /\ pc[i] \in {"idle", "await_guard"}
            /\ result[i] = NoResult
            /\ exc[i] = None
            /\ cancel[i] = "not_called"

\* C13 witness: one producer has failed and another has completed, both
\* with their guards still running and their coordinators still waiting.
C13_Witness ==
    \E i, j \in Invocations :
        /\ guard[i] = "running" /\ llm[i] = "failed"
        /\ pc[i] = "await_guard"
        /\ guard[j] = "running" /\ llm[j] = "done"
        /\ pc[j] = "await_guard"

\* C14: work saved on rejection.  A producer that was running when cancel
\* was called and did not swallow it never completes: while the cancel is
\* pending it is still running without a value, once it acknowledged it is
\* cancelled without a value, and from then on the coordinator is either
\* about to resume from line 80 or has returned Blocked.
C14_WorkSaved ==
    \A i \in Invocations :
        /\ cancel[i] = "pending" =>
               (llm[i] = "running" /\ llmValue[i] = None
                /\ pc[i] = "await_cancel")
        /\ cancel[i] = "honoured" =>
               /\ guard[i] = "rejected"
               /\ llm[i] = "cancelled" /\ llmValue[i] = None
               /\ pc[i] = "await_cancel" \/ IsBlocked(i)

\* C14 witness: the guard rejected, the running producer acknowledged the
\* cancel without ever producing a value, and the invocation returned
\* Blocked.
C14_Witness ==
    \E i \in Invocations :
        /\ guard[i] = "rejected" /\ cancel[i] = "honoured"
        /\ llm[i] = "cancelled" /\ llmValue[i] = None
        /\ IsBlocked(i) /\ result[i].messages = state[i].messages

\* C15: the request is read-only.  No step changes the State an invocation
\* was called with; a Blocked result carries exactly the input messages and
\* a Completed one the input messages followed by exactly one message.
C15_RequestReadOnly ==
    /\ [](\A i \in Invocations :
              /\ state[i] \in InputStates
              /\ IsBlocked(i) => result[i].messages = state[i].messages
              /\ IsCompleted(i) =>
                     /\ Len(result[i].messages) = Len(state[i].messages) + 1
                     /\ SubSeq(result[i].messages, 1, Len(state[i].messages))
                            = state[i].messages)
    /\ [][state' = state]_vars

\* C15 witness: with two-message inputs, one invocation returned Completed
\* with three messages and another returned Blocked with two, and both
\* inputs still hold two messages.
C15_Witness ==
    \E i, j \in Invocations :
        /\ IsCompleted(i) /\ Len(result[i].messages) = 3
        /\ Len(state[i].messages) = 2
        /\ IsBlocked(j) /\ Len(result[j].messages) = 2
        /\ Len(state[j].messages) = 2

\* C16: result consistency.  In every returned State, guardrail_passed is
\* True exactly when error is None, exactly when one message was appended
\* to the input messages; otherwise the messages are the input messages.
C16_ResultConsistency ==
    \A i \in Invocations :
        pc[i] = "returned" =>
            /\ result[i].guardrail_passed <=> result[i].error = None
            /\ result[i].guardrail_passed <=>
                   Len(result[i].messages) = Len(state[i].messages) + 1
            /\ ~result[i].guardrail_passed =>
                   result[i].messages = state[i].messages

\* C16 witness: a state returned with guardrail_passed False and an error,
\* and a state returned with guardrail_passed True and none.
C16_Witness ==
    \E i, j \in Invocations :
        /\ pc[i] = "returned" /\ ~result[i].guardrail_passed
        /\ result[i].error = BlockedError
        /\ pc[j] = "returned" /\ result[j].guardrail_passed
        /\ result[j].error = None

(***************************************************************************)
(* C17                                                                     *)
(***************************************************************************)

\* C17: sequential input guardrail.  The model is never called before
\* before_model has run; a run with a non-empty request and a violation is,
\* once past the hook, stopped by the ValueError of the input guardrail
\* with no model call ever made; and a run whose check passed stands before
\* the model call with its state exactly as it was invoked and no error.
C17_InputGuardrail ==
    \A d \in Demos :
        /\ agentPc[d] \in {"idle", "before_model"} => modelCalls[d] = 0
        /\ (Len(request[d]) > 0 /\ violation[d]
            /\ agentPc[d] \notin {"idle", "before_model"}) =>
               /\ agentPc[d] = "blocked"
               /\ agentError[d] = InputViolationError(d)
               /\ modelCalls[d] = 0
        /\ modelCalls[d] > 0 => (Len(request[d]) = 0 \/ ~violation[d])
        /\ agentPc[d] = "model" =>
               (agentMsgs[d] = request[d] /\ agentError[d] = None)

\* C17 witness: one demo was stopped by its input guardrail on a non-empty
\* request with no model call, and the other, whose check passed on a
\* non-empty request, had its model called.
C17_Witness ==
    \E d, e \in Demos :
        /\ Len(request[d]) > 0 /\ violation[d]
        /\ agentPc[d] = "blocked" /\ modelCalls[d] = 0
        /\ agentError[d] = InputViolationError(d)
        /\ Len(request[e]) > 0 /\ ~violation[e]
        /\ modelCalls[e] = 1

====
